---- MODULE Spec2Model ----
(***************************************************************************)
(* A model of the compile-time containers of fatal: type_list              *)
(* (fatal/type/list.h) and type_map (fatal/type/map.h).                    *)
(*                                                                         *)
(* A type_list<Args...> is a sequence of types.  A type that carries a     *)
(* value (std::integral_constant<int, N>) is the integer N, and a          *)
(* type_pair<TKey, TMapped> is the tuple <<TKey, TMapped>>.  A type_map is *)
(* its `contents`, a type_list of type_pairs.  Every template of           *)
(* detail::type_list_impl is a (recursive) operator over such sequences,   *)
(* one IF branch per partial specialization.  Positions are 0-based, as in *)
(* the source.                                                             *)
(***************************************************************************)
EXTENDS Integers, Sequences, FiniteSets

\* Bounds of the model.
MaxLen == 3        \* longest list an operation is instantiated on
MaxValue == 2      \* values (keys) are 1..MaxValue
MaxMapped == 2     \* mapped types are 1..MaxMapped
MaxNodes == 4      \* types (nested lists included) inside a list to flatten

VARIABLES
  pc,           \* "ready": inputs chosen; "done": the operation was applied
  container,    \* "type_list" or "type_map": the class the operation is of
  op,           \* the operation applied to `list`
  list,         \* Args... of the type_list (for a type_map: its contents)
  other,        \* a second list: TList of merge, UArgs... of zip
  comparer,     \* TLessComparer / TComparer
  the_needle,   \* the runtime needle of a binary search
  the_filter,   \* TFilter of filter
  the_depth,    \* Depth of flatten
  the_step,     \* Step of unzip
  the_offset,   \* Offset of unzip
  the_string,   \* the characters handed to parse / try_parse
  the_end,      \* the range parsed is [begin, begin + the_end)
  the_out,      \* what `out` holds before try_parse
  result,       \* the resulting list (for filter: `first`)
  result2,      \* for filter: `second`
  ret,          \* the boolean a binary search returns
  calls,        \* the visitor's invocations, in order
  well_formed,  \* FALSE when a static_assert of the instantiation fails
  out,          \* `out` of try_parse
  parsed,       \* what parse returns
  thrown        \* TRUE when parse throws std::invalid_argument

\* static_cast<test_enum>(-1): no declared enumerator
invalid_enum == -1

\* what an instantiation is given, and what it yields
inputs == <<container, op, list, other, comparer, the_needle, the_filter,
            the_depth, the_step, the_offset, the_string, the_end, the_out>>
parsing == <<out, parsed, thrown>>
outputs == <<result, result2, ret, calls, well_formed, parsing>>

vars == <<pc, inputs, outputs>>

----------------------------------------------------------------------------
\* The universe of types the lists are drawn from.

Values == 1..MaxValue
Pairs == Values \X (1..MaxMapped)

RECURSIVE SeqsUpTo(_, _)
SeqsUpTo(S, n) ==
  IF n = 0 THEN {<<>>}
  ELSE LET shorter == SeqsUpTo(S, n - 1)
       IN  shorter \cup {Append(s, x) : s \in {t \in shorter : Len(t) = n - 1},
                                        x \in S}

Lists == SeqsUpTo(Values, MaxLen)
Maps == SeqsUpTo(Pairs, MaxLen)

----------------------------------------------------------------------------
\* Comparers.

\* A comparer is a sequence of names: an adaptor applied to a comparer is the
\* adaptor's name followed by the comparer.
constants_comparison_lt == <<"constants_comparison_lt">>

\* type_get_first_comparer<TLessComparer>::type compares the pairs' firsts
type_get_first_comparer(TLessComparer) ==
  <<"type_get_first_comparer">> \o TLessComparer

\* TLessComparer<TLHS, TRHS>::value
RECURSIVE Less(_, _, _)
Less(TLessComparer, TLHS, TRHS) ==
  IF Head(TLessComparer) = "type_get_first_comparer"
  THEN Less(Tail(TLessComparer), TLHS[1], TRHS[1])
  ELSE TLHS < TRHS

\* A filter is the set of values it accepts and the adaptors applied to it.
\* std::integral_constant-like: TFilter<U>::value
value_filter(accepts) == [adaptors |-> <<>>, accepts |-> accepts]

NoFilter == value_filter({})

\* detail::type_map_impl::curried_key_filter<TFilter>::type feeds the filter
\* with the pair's first
curried_key_filter(TFilter) ==
  [adaptors |-> <<"curried_key_filter">> \o TFilter.adaptors,
   accepts |-> TFilter.accepts]

\* TFilter<U>::value
RECURSIVE filter_value(_, _)
filter_value(TFilter, U) ==
  IF TFilter.adaptors # <<>>
  THEN filter_value([adaptors |-> Tail(TFilter.adaptors),
                     accepts |-> TFilter.accepts], U[1])
  ELSE U \in TFilter.accepts

----------------------------------------------------------------------------
\* Basic members of type_list.

at(Index, Args) == Args[Index + 1]

push_front(Args, Prefix) == Prefix \o Args

concat(Args, TList) == push_front(TList, Args)

RECURSIVE tail(_, _)
tail(Index, Args) ==
  IF Index = 0 THEN Args
  ELSE tail(Index - 1, Tail(Args))

RECURSIVE split(_, _)
split(Index, Args) ==
  IF Index = 0 THEN [first |-> <<>>, second |-> Args]
  ELSE LET t == split(Index - 1, Tail(Args))
       IN  [first |-> push_front(t.first, <<Head(Args)>>), second |-> t.second]

RECURSIVE left(_, _)
left(Size, Args) ==
  IF Size = 0 THEN <<>>
  ELSE push_front(left(Size - 1, Tail(Args)), <<Head(Args)>>)

RECURSIVE slice(_, _, _)
slice(Begin, End, Args) ==
  IF Begin = 0 THEN left(End, Args)
  ELSE slice(Begin - 1, End - 1, Tail(Args))

RECURSIVE try_at(_, _)
try_at(Distance, Args) ==
  IF Args = <<>> THEN <<>>
  ELSE IF Distance = 0 THEN <<Head(Args)>>
  ELSE try_at(Distance - 1, Tail(Args))

RECURSIVE is_sorted(_, _)
is_sorted(TLessComparer, Args) ==
  IF Len(Args) < 2 THEN TRUE
  ELSE /\ ~Less(TLessComparer, Args[2], Args[1])
       /\ is_sorted(TLessComparer, Tail(Args))

----------------------------------------------------------------------------
\* merge and merge_sort.

\* merge with `head` taken from the left list whatever the comparison says
RECURSIVE merge_head_lhs(_, _, _)
merge_head_lhs(TLessComparer, TRHSList, TLHSList) ==
  IF TLHSList = <<>> THEN TRHSList
  ELSE IF TRHSList = <<>> THEN TLHSList
  ELSE LET rhs == at(0, TRHSList)
           TLHS == Head(TLHSList)
           right_merge == Less(TLessComparer, rhs, TLHS)
           tl == IF right_merge
                 THEN merge_head_lhs(TLessComparer, tail(1, TRHSList), TLHSList)
                 ELSE merge_head_lhs(TLessComparer, TRHSList, Tail(TLHSList))
       IN  push_front(tl, <<TLHS>>)

\* merge with right_merge computed as !TLessComparer<TLHS, rhs>
RECURSIVE merge_right_on_tie(_, _, _)
merge_right_on_tie(TLessComparer, TRHSList, TLHSList) ==
  IF TLHSList = <<>> THEN TRHSList
  ELSE IF TRHSList = <<>> THEN TLHSList
  ELSE LET rhs == at(0, TRHSList)
           TLHS == Head(TLHSList)
           right_merge == ~Less(TLessComparer, TLHS, rhs)
           head == IF right_merge THEN rhs ELSE TLHS
           tl == IF right_merge
                 THEN merge_right_on_tie(TLessComparer, tail(1, TRHSList),
                                         TLHSList)
                 ELSE merge_right_on_tie(TLessComparer, TRHSList,
                                         Tail(TLHSList))
       IN  push_front(tl, <<head>>)

\* merge without the specialization for an exhausted left list
RECURSIVE merge_drop_rhs(_, _, _)
merge_drop_rhs(TLessComparer, TRHSList, TLHSList) ==
  IF TLHSList = <<>> THEN <<>>
  ELSE IF TRHSList = <<>> THEN TLHSList
  ELSE LET rhs == at(0, TRHSList)
           TLHS == Head(TLHSList)
           right_merge == Less(TLessComparer, rhs, TLHS)
           head == IF right_merge THEN rhs ELSE TLHS
           tl == IF right_merge
                 THEN merge_drop_rhs(TLessComparer, tail(1, TRHSList), TLHSList)
                 ELSE merge_drop_rhs(TLessComparer, TRHSList, Tail(TLHSList))
       IN  push_front(tl, <<head>>)

RECURSIVE merge(_, _, _)
merge(TLessComparer, TRHSList, TLHSList) ==
  IF TLHSList = <<>> THEN TRHSList
  ELSE IF TRHSList = <<>> THEN TLHSList
  ELSE LET rhs == at(0, TRHSList)
           TLHS == Head(TLHSList)
           right_merge == Less(TLessComparer, rhs, TLHS)
           head == IF right_merge THEN rhs ELSE TLHS
           tl == IF right_merge
                 THEN merge(TLessComparer, tail(1, TRHSList), TLHSList)
                 ELSE merge(TLessComparer, TRHSList, Tail(TLHSList))
       IN  push_front(tl, <<head>>)

\* the static_asserts of merge_entry_point (debug builds)
merge_entry_point_asserts(TLessComparer, TRHSList, TLHSList) ==
  /\ is_sorted(TLessComparer, TLHSList)
  /\ is_sorted(TLessComparer, TRHSList)

merge_entry_point(TLessComparer, TRHSList, TLHSList) ==
  merge(TLessComparer, TRHSList, TLHSList)

\* type_list::merge<TList, TLessComparer>
list_merge(Args, TList, TLessComparer) ==
  merge_entry_point(TLessComparer, TList, Args)

RECURSIVE merge_sort(_, _)
merge_sort(TLessComparer, TList) ==
  IF Len(TList) < 2 THEN TList
  ELSE LET unsorted == split(Len(TList) \div 2, TList)
           sorted_left == merge_sort(TLessComparer, unsorted.first)
           sorted_right == merge_sort(TLessComparer, unsorted.second)
       IN  list_merge(sorted_left, sorted_right, TLessComparer)

\* every merge instantiated by merge_sort passes merge_entry_point's asserts
RECURSIVE merge_sort_asserts(_, _)
merge_sort_asserts(TLessComparer, TList) ==
  IF Len(TList) < 2 THEN TRUE
  ELSE LET unsorted == split(Len(TList) \div 2, TList)
       IN  /\ merge_sort_asserts(TLessComparer, unsorted.first)
           /\ merge_sort_asserts(TLessComparer, unsorted.second)
           /\ merge_entry_point_asserts(TLessComparer,
                merge_sort(TLessComparer, unsorted.second),
                merge_sort(TLessComparer, unsorted.first))

\* type_list::merge_sort<TLessComparer>
list_merge_sort(Args, TLessComparer) == merge_sort(TLessComparer, Args)

\* type_map::merge_sort<TLessComparer>, on the map's contents
map_merge_sort(contents, TLessComparer) ==
  list_merge_sort(contents, type_get_first_comparer(TLessComparer))

----------------------------------------------------------------------------
\* Sorting specification: merge_sort and merge on lists and maps.

\* the comparer the container hands to the type_list algorithms
EffectiveLess ==
  IF container = "type_map" THEN type_get_first_comparer(comparer)
  ELSE comparer

SortInputs ==
  [container : {"type_list"}, list : Lists,
   comparer : {constants_comparison_lt}]
    \cup [container : {"type_list"}, list : Maps,
          comparer : {type_get_first_comparer(constants_comparison_lt)}]
    \cup [container : {"type_map"}, list : Maps,
          comparer : {constants_comparison_lt}]

\* nothing instantiated yet
Fresh ==
  /\ pc = "ready"
  /\ result = <<>> /\ result2 = <<>> /\ ret = FALSE /\ calls = <<>>
  /\ well_formed = TRUE
  /\ out = the_out /\ parsed = invalid_enum /\ thrown = FALSE

\* Fresh, for the operations that take no Step, no Offset and no string
Idle ==
  /\ the_step = 0 /\ the_offset = 0
  /\ the_string = <<>> /\ the_end = 0 /\ the_out = invalid_enum
  /\ Fresh

SortInit ==
  /\ Idle
  /\ the_needle = 0 /\ the_filter = NoFilter /\ the_depth = 0
  /\ \E in \in SortInputs :
       /\ container = in.container
       /\ comparer = in.comparer
       /\ \/ op = "merge_sort" /\ list = in.list /\ other = <<>>
          \/ /\ op = "merge"
             /\ in.container = "type_list"
             /\ \E n \in 0..Len(in.list) :
                  LET s == split(n, in.list)
                  IN  list = s.first /\ other = s.second

MergeSort ==
  /\ pc = "ready" /\ op = "merge_sort"
  /\ result' = (IF container = "type_map"
                THEN map_merge_sort(list, comparer)
                ELSE list_merge_sort(list, comparer))
  /\ well_formed' = merge_sort_asserts(EffectiveLess, list)
  /\ pc' = "done"
  /\ UNCHANGED <<inputs, parsing, result2, ret, calls>>

Merge ==
  /\ pc = "ready" /\ op = "merge"
  /\ result' = list_merge(list, other, comparer)
  /\ well_formed' = merge_entry_point_asserts(comparer, other, list)
  /\ pc' = "done"
  /\ UNCHANGED <<inputs, parsing, result2, ret, calls>>

SortNext == MergeSort \/ Merge

SpecSort == SortInit /\ [][SortNext]_vars

----------------------------------------------------------------------------
\* Binary search.  A search yields the boolean it returns and the visitor's
\* invocations, each the indexed_type_tag<T, Index> the visitor receives.

type_value_comparer == <<"type_value_comparer">>
index_value_comparer == <<"index_value_comparer">>

\* detail::type_map_impl::binary_search_comparer<TComparer>
binary_search_comparer(TComparer) == <<"binary_search_comparer">> \o TComparer

\* lhs < rhs ? -1 : rhs < lhs ? 1 : 0
ThreeWay(lhs, rhs) == IF lhs < rhs THEN -1 ELSE IF rhs < lhs THEN 1 ELSE 0

\* TComparer::compare(needle, indexed_type_tag<T, Index>)
RECURSIVE compare(_, _, _, _)
compare(TComparer, lhs, T, Index) ==
  IF Head(TComparer) = "binary_search_comparer"
  THEN compare(Tail(TComparer), lhs, T[1], Index)
  ELSE IF Head(TComparer) = "index_value_comparer"
  THEN ThreeWay(lhs, Index)
  ELSE ThreeWay(lhs, T)

NotCalled == [ret |-> FALSE, calls |-> <<>>]

\* (visitor(indexed_type_tag<T, Index>{}, needle, args...), true)
visit_true(T, Index) == [ret |-> TRUE, calls |-> <<[T |-> T, Index |-> Index]>>]

\* binary_search_exact searching `right` without skipping the pivot's index
RECURSIVE binary_search_exact_offset(_, _, _, _)
binary_search_exact_offset(TComparer, Offset, needle, Args) ==
  IF Args = <<>> THEN NotCalled
  ELSE LET sp == split(Len(Args) \div 2, Args)
           left_half == sp.first
           right_half == tail(1, sp.second)
           pivot == [T |-> at(0, sp.second), Index |-> Offset + Len(left_half)]
           comparison == compare(TComparer, needle, pivot.T, pivot.Index)
       IN  IF comparison < 0
           THEN binary_search_exact_offset(TComparer, Offset, needle, left_half)
           ELSE IF 0 < comparison
           THEN binary_search_exact_offset(TComparer, Offset + Len(left_half),
                                           needle, right_half)
           ELSE visit_true(pivot.T, pivot.Index)

RECURSIVE binary_search_exact(_, _, _, _)
binary_search_exact(TComparer, Offset, needle, Args) ==
  IF Args = <<>> THEN NotCalled
  ELSE LET sp == split(Len(Args) \div 2, Args)
           left_half == sp.first
           right_half == tail(1, sp.second)
           pivot == [T |-> at(0, sp.second), Index |-> Offset + Len(left_half)]
           comparison == compare(TComparer, needle, pivot.T, pivot.Index)
       IN  IF comparison < 0
           THEN binary_search_exact(TComparer, Offset, needle, left_half)
           ELSE IF 0 < comparison
           THEN binary_search_exact(TComparer, Offset + Len(left_half) + 1,
                                    needle, right_half)
           ELSE visit_true(pivot.T, pivot.Index)

\* recursion going left also when the needle equals the pivot
RECURSIVE binary_search_lower_bound_recursion_le(_, _, _, _)
binary_search_lower_bound_recursion_le(TComparer, Offset, needle, Args) ==
  IF Args = <<>> THEN NotCalled
  ELSE IF Len(Args) = 1 THEN visit_true(Args[1], Offset)
  ELSE LET sp == split(Len(Args) \div 2, Args)
           left_half == sp.first
           right_half == sp.second
           pivot == [T |-> at(0, right_half), Index |-> Offset + Len(left_half)]
       IN  IF compare(TComparer, needle, pivot.T, pivot.Index) <= 0
           THEN binary_search_lower_bound_recursion_le(TComparer, Offset,
                                                       needle, left_half)
           ELSE binary_search_lower_bound_recursion_le(TComparer,
                                                       Offset + Len(left_half),
                                                       needle, right_half)

RECURSIVE binary_search_lower_bound_recursion(_, _, _, _)
binary_search_lower_bound_recursion(TComparer, Offset, needle, Args) ==
  IF Args = <<>> THEN NotCalled
  ELSE IF Len(Args) = 1 THEN visit_true(Args[1], Offset)
  ELSE LET sp == split(Len(Args) \div 2, Args)
           left_half == sp.first
           right_half == sp.second
           pivot == [T |-> at(0, right_half), Index |-> Offset + Len(left_half)]
       IN  IF compare(TComparer, needle, pivot.T, pivot.Index) < 0
           THEN binary_search_lower_bound_recursion(TComparer, Offset,
                                                    needle, left_half)
           ELSE binary_search_lower_bound_recursion(TComparer,
                                                    Offset + Len(left_half),
                                                    needle, right_half)

\* search with the operands of && swapped: recursion(...) && compare(...) >= 0
binary_search_lower_bound_swapped(TComparer, needle, Args) ==
  IF Args = <<>> THEN NotCalled
  ELSE LET r == binary_search_lower_bound_recursion(TComparer, 0, needle, Args)
       IN  [ret |-> r.ret /\ compare(TComparer, needle, at(0, Args), 0) >= 0,
            calls |-> r.calls]

binary_search_lower_bound(TComparer, needle, Args) ==
  IF Args = <<>> THEN NotCalled
  ELSE IF compare(TComparer, needle, at(0, Args), 0) >= 0
  THEN binary_search_lower_bound_recursion(TComparer, 0, needle, Args)
  ELSE NotCalled

\* binary_search_upper_bound<T> accepting an element equal to the needle
RECURSIVE binary_search_upper_bound_le(_, _, _, _)
binary_search_upper_bound_le(TComparer, Offset, needle, Args) ==
  IF Args = <<>> THEN NotCalled
  ELSE IF Len(Args) = 1
  THEN IF compare(TComparer, needle, Args[1], Offset) <= 0
       THEN visit_true(Args[1], Offset)
       ELSE NotCalled
  ELSE LET sp == split((Len(Args) + 1) \div 2, Args)
           left_half == sp.first
           right_half == sp.second
           pivot == [T |-> at(Len(left_half) - 1, left_half),
                     Index |-> Offset + (Len(left_half) - 1)]
       IN  IF compare(TComparer, needle, pivot.T, pivot.Index) < 0
           THEN binary_search_upper_bound_le(TComparer, Offset, needle,
                                             left_half)
           ELSE binary_search_upper_bound_le(TComparer, Offset + Len(left_half),
                                             needle, right_half)

RECURSIVE binary_search_upper_bound(_, _, _, _)
binary_search_upper_bound(TComparer, Offset, needle, Args) ==
  IF Args = <<>> THEN NotCalled
  ELSE IF Len(Args) = 1
  THEN IF compare(TComparer, needle, Args[1], Offset) < 0
       THEN visit_true(Args[1], Offset)
       ELSE NotCalled
  ELSE LET sp == split((Len(Args) + 1) \div 2, Args)
           left_half == sp.first
           right_half == sp.second
           pivot == [T |-> at(Len(left_half) - 1, left_half),
                     Index |-> Offset + (Len(left_half) - 1)]
       IN  IF compare(TComparer, needle, pivot.T, pivot.Index) < 0
           THEN binary_search_upper_bound(TComparer, Offset, needle, left_half)
           ELSE binary_search_upper_bound(TComparer, Offset + Len(left_half),
                                          needle, right_half)

\* type_list::binary_search<TComparer>::exact / lower_bound / upper_bound
list_exact(Args, TComparer, n) == binary_search_exact(TComparer, 0, n, Args)

list_lower_bound(Args, TComparer, n) ==
  binary_search_lower_bound(TComparer, n, Args)

list_upper_bound(Args, TComparer, n) ==
  binary_search_upper_bound(TComparer, 0, n, Args)

\* type_map::binary_search<TComparer>::exact / lower_bound / upper_bound
map_exact(contents, TComparer, n) ==
  list_exact(contents, binary_search_comparer(TComparer), n)

map_lower_bound(contents, TComparer, n) ==
  list_lower_bound(contents, binary_search_comparer(TComparer), n)

map_upper_bound(contents, TComparer, n) ==
  list_upper_bound(contents, binary_search_comparer(TComparer), n)

----------------------------------------------------------------------------
\* Search specification: the three binary searches on lists and maps.

Needles == 0..(MaxValue + 1)

SearchInputs ==
  [container : {"type_list"}, list : Lists,
   comparer : {type_value_comparer, index_value_comparer}]
    \cup [container : {"type_map"}, list : Maps,
          comparer : {type_value_comparer}]

SearchInit ==
  /\ Idle
  /\ other = <<>> /\ the_filter = NoFilter /\ the_depth = 0
  /\ op \in {"exact", "lower_bound", "upper_bound"}
  /\ the_needle \in Needles
  /\ \E in \in SearchInputs :
       /\ container = in.container
       /\ list = in.list
       /\ comparer = in.comparer

Returned(r) ==
  /\ ret' = r.ret
  /\ calls' = r.calls
  /\ pc' = "done"
  /\ UNCHANGED <<inputs, parsing, result, result2, well_formed>>

Exact ==
  /\ pc = "ready" /\ op = "exact"
  /\ Returned(IF container = "type_map"
              THEN map_exact(list, comparer, the_needle)
              ELSE list_exact(list, comparer, the_needle))

LowerBound ==
  /\ pc = "ready" /\ op = "lower_bound"
  /\ Returned(IF container = "type_map"
              THEN map_lower_bound(list, comparer, the_needle)
              ELSE list_lower_bound(list, comparer, the_needle))

UpperBound ==
  /\ pc = "ready" /\ op = "upper_bound"
  /\ Returned(IF container = "type_map"
              THEN map_upper_bound(list, comparer, the_needle)
              ELSE list_upper_bound(list, comparer, the_needle))

SearchNext == Exact \/ LowerBound \/ UpperBound

SpecSearch == SearchInit /\ [][SearchNext]_vars

----------------------------------------------------------------------------
\* filter and zip.

\* filter adding the rejected types with push_back
RECURSIVE filter_push_back(_, _)
filter_push_back(TFilter, Args) ==
  IF Args = <<>> THEN [first |-> <<>>, second |-> <<>>]
  ELSE LET U == Head(Args)
           tl == filter_push_back(TFilter, Tail(Args))
       IN  IF filter_value(TFilter, U)
           THEN [first |-> push_front(tl.first, <<U>>), second |-> tl.second]
           ELSE [first |-> tl.first, second |-> Append(tl.second, U)]

RECURSIVE filter(_, _)
filter(TFilter, Args) ==
  IF Args = <<>> THEN [first |-> <<>>, second |-> <<>>]
  ELSE LET U == Head(Args)
           tl == filter(TFilter, Tail(Args))
       IN  IF filter_value(TFilter, U)
           THEN [first |-> push_front(tl.first, <<U>>), second |-> tl.second]
           ELSE [first |-> tl.first, second |-> push_front(tl.second, <<U>>)]

\* type_list::filter<TFilter>
list_filter(Args, TFilter) == filter(TFilter, Args)

\* type_map::filter<TFilter>: detail::type_map_impl::filter on the contents
map_filter(TFilter, TList) ==
  LET filtered == list_filter(TList, curried_key_filter(TFilter))
  IN  [first |-> filtered.first, second |-> filtered.second]

\* zip without the rest of the right list once the left list is exhausted
RECURSIVE zip_drop_right(_, _, _)
zip_drop_right(TRightList, Index, ULeftArgs) ==
  IF ULeftArgs = <<>> THEN <<>>
  ELSE IF Index = Len(TRightList) THEN ULeftArgs
  ELSE concat(push_front(try_at(Index, TRightList), <<Head(ULeftArgs)>>),
              zip_drop_right(TRightList, Index + 1, Tail(ULeftArgs)))

RECURSIVE zip(_, _, _)
zip(TRightList, Index, ULeftArgs) ==
  IF ULeftArgs = <<>> THEN slice(Index, Len(TRightList), TRightList)
  ELSE IF Index = Len(TRightList) THEN ULeftArgs
  ELSE concat(push_front(try_at(Index, TRightList), <<Head(ULeftArgs)>>),
              zip(TRightList, Index + 1, Tail(ULeftArgs)))

\* type_list::zip<UArgs...>
list_zip(Args, UArgs) == zip(UArgs, 0, Args)

----------------------------------------------------------------------------
\* Partition specification: filter on lists and maps, zip on lists.

Filters == {value_filter(a) : a \in SUBSET Values}

PartitionInit ==
  /\ Idle
  /\ comparer = constants_comparison_lt /\ the_needle = 0 /\ the_depth = 0
  /\ \/ /\ op = "filter"
        /\ \/ container = "type_list" /\ list \in Lists
           \/ container = "type_map" /\ list \in Maps
        /\ other = <<>>
        /\ the_filter \in Filters
     \/ /\ op = "zip"
        /\ container = "type_list"
        /\ list \in Lists
        /\ other \in Lists
        /\ the_filter = NoFilter

Filter ==
  /\ pc = "ready" /\ op = "filter"
  /\ LET type == IF container = "type_map"
                 THEN map_filter(the_filter, list)
                 ELSE list_filter(list, the_filter)
     IN  result' = type.first /\ result2' = type.second
  /\ pc' = "done"
  /\ UNCHANGED <<inputs, parsing, ret, calls, well_formed>>

Zip ==
  /\ pc = "ready" /\ op = "zip"
  /\ result' = list_zip(list, other)
  /\ pc' = "done"
  /\ UNCHANGED <<inputs, parsing, result2, ret, calls, well_formed>>

PartitionNext == Filter \/ Zip

SpecPartition == PartitionInit /\ [][PartitionNext]_vars

----------------------------------------------------------------------------
\* flatten.  In a list that nests lists, every element is a record: a plain
\* type T is Plain(T), and a type_list<Args...> is Nested(Args).

Plain(T) == [is_list |-> FALSE, id |-> T, items |-> <<>>]
Nested(Args) == [is_list |-> TRUE, id |-> 0, items |-> Args]

\* std::numeric_limits<std::size_t>::max(), the default Depth; it stands for
\* 2^64 - 1 and is never reached by Depth + 1
size_t_max == 2147483647

\* flatten entering a nested list without counting the level
RECURSIVE flatten_same_depth(_, _, _)
flatten_same_depth(Depth, MaxDepth, Args) ==
  IF Args = <<>> THEN <<>>
  ELSE LET T == Head(Args)
           UArgs == Tail(Args)
       IN  IF T.is_list
           THEN IF Depth = MaxDepth
                THEN <<T>> \o UArgs
                ELSE concat(flatten_same_depth(Depth, MaxDepth, T.items),
                            flatten_same_depth(Depth, MaxDepth, UArgs))
           ELSE IF Depth = MaxDepth
                THEN <<T>> \o UArgs
                ELSE push_front(flatten_same_depth(Depth, MaxDepth, UArgs),
                                <<T>>)

RECURSIVE flatten(_, _, _)
flatten(Depth, MaxDepth, Args) ==
  IF Args = <<>> THEN <<>>
  ELSE LET T == Head(Args)
           UArgs == Tail(Args)
       IN  IF T.is_list
           THEN IF Depth = MaxDepth
                THEN <<T>> \o UArgs
                ELSE concat(flatten(Depth + 1, MaxDepth, T.items),
                            flatten(Depth, MaxDepth, UArgs))
           ELSE IF Depth = MaxDepth
                THEN <<T>> \o UArgs
                ELSE push_front(flatten(Depth, MaxDepth, UArgs), <<T>>)

\* type_list::flatten<Depth>
list_flatten(Args, Depth) == flatten(0, Depth, Args)

----------------------------------------------------------------------------
\* Flatten specification.

\* the lists holding exactly n types, counting the nested lists and what
\* they hold
RECURSIVE NestedLists(_)
NestedLists(n) ==
  IF n = 0 THEN {<<>>}
  ELSE UNION {
         LET heads == {Nested(f) : f \in NestedLists(k - 1)}
                        \cup (IF k = 1 THEN {Plain(v) : v \in Values} ELSE {})
         IN  {<<h>> \o r : h \in heads, r \in NestedLists(n - k)}
         : k \in 1..n}

Depths == (0..MaxLen) \cup {size_t_max}

FlattenInit ==
  /\ Idle
  /\ container = "type_list" /\ op = "flatten"
  /\ comparer = constants_comparison_lt /\ the_needle = 0
  /\ the_filter = NoFilter /\ other = <<>>
  /\ \E n \in 0..MaxNodes : list \in NestedLists(n)
  /\ the_depth \in Depths

Flatten ==
  /\ pc = "ready" /\ op = "flatten"
  /\ result' = list_flatten(list, the_depth)
  /\ pc' = "done"
  /\ UNCHANGED <<inputs, parsing, result2, ret, calls, well_formed>>

FlattenNext == Flatten

SpecFlatten == FlattenInit /\ [][FlattenNext]_vars

----------------------------------------------------------------------------
\* unzip.

\* skip restarting the count at Step + 1 after a pick
RECURSIVE skip_one_more(_, _, _)
skip_one_more(Next, Step, Args) ==
  IF Args = <<>> THEN <<>>
  ELSE LET U == Head(Args)
           tl == skip_one_more(IF Next = 0 THEN Step + 1 ELSE Next - 1, Step,
                               Tail(Args))
       IN  IF Next = 0 THEN push_front(tl, <<U>>) ELSE tl

RECURSIVE skip(_, _, _)
skip(Next, Step, Args) ==
  IF Args = <<>> THEN <<>>
  ELSE LET U == Head(Args)
           tl == skip(IF Next = 0 THEN Step ELSE Next - 1, Step, Tail(Args))
       IN  IF Next = 0 THEN push_front(tl, <<U>>) ELSE tl

\* curried_skip<Step>::type<UArgs...>
curried_skip(Step, UArgs) == skip(0, Step, UArgs)

\* type_list::unzip<Step, Offset>
list_unzip(Args, Step, Offset) ==
  curried_skip(Step,
               tail(IF Offset < Len(Args) THEN Offset ELSE Len(Args), Args))

----------------------------------------------------------------------------
\* Unzip specification.

UnzipLists == SeqsUpTo(Values, MaxLen + 2)

UnzipInit ==
  /\ the_string = <<>> /\ the_end = 0 /\ the_out = invalid_enum
  /\ Fresh
  /\ container = "type_list" /\ op = "unzip"
  /\ comparer = constants_comparison_lt /\ the_needle = 0
  /\ the_filter = NoFilter /\ the_depth = 0 /\ other = <<>>
  /\ list \in UnzipLists
  /\ the_step \in 0..MaxLen
  /\ the_offset \in 0..(MaxLen + 3)

Unzip ==
  /\ pc = "ready" /\ op = "unzip"
  /\ result' = list_unzip(list, the_step, the_offset)
  /\ pc' = "done"
  /\ UNCHANGED <<inputs, parsing, result2, ret, calls, well_formed>>

UnzipNext == Unzip

SpecUnzip == UnzipInit /\ [][UnzipNext]_vars

----------------------------------------------------------------------------
\* cluster.

\* type_list::push_back<Suffix...>
push_back(Args, Suffix) == Args \o Suffix

\* transform::identity
identity == [name |-> "identity"]

\* cluster_transform<T>::add
cluster_transform(T) == [name |-> "add", T |-> T]

\* TTransform<U>
Transformed(TTransform, U) ==
  IF TTransform.name = "add" THEN push_back(U, <<TTransform.T>>) ELSE U

\* type_pair<TKey, TMapped>::transform<TKeyTransform, TMappedTransform>
pair_transform(TPair, TKeyTransform, TMappedTransform) ==
  <<Transformed(TKeyTransform, TPair[1]),
    Transformed(TMappedTransform, TPair[2])>>

\* detail::type_map_impl::transform
transform(TPair, TKeyTransform, TMappedTransform) ==
  pair_transform(TPair, TKeyTransform, TMappedTransform)

\* transform_at that transforms the pair whatever its key is
transform_at_any_key(TKey, TPair, TKeyTransform, TMappedTransform) ==
  pair_transform(TPair, TKeyTransform, TMappedTransform)

\* detail::type_map_impl::transform_at
transform_at(TKey, TPair, TKeyTransform, TMappedTransform) ==
  IF TKey = TPair[1]
    THEN pair_transform(TPair, TKeyTransform, TMappedTransform)
    ELSE TPair

\* type_map::transform_at<TKey, TMappedTransform, TKeyTransform>
map_transform_at(Args, TKey, TMappedTransform, TKeyTransform) ==
  [i \in DOMAIN Args |->
     transform_at(TKey, Args[i], TKeyTransform, TMappedTransform)]

\* type_map::keys
keys(Args) == [i \in DOMAIN Args |-> Args[i][1]]

\* detail::type_list_impl::contains
RECURSIVE contains(_, _)
contains(T, Args) ==
  IF Args = <<>> THEN FALSE
  ELSE IF T = Head(Args) THEN TRUE ELSE contains(T, Tail(Args))

\* type_map::contains<T>
map_contains(Args, T) == contains(T, keys(Args))

\* type_map::push_back<TKey, TMapped>
map_push_back(Args, TKey, TMapped) == Args \o <<(<<TKey, TMapped>>)>>

\* detail::type_map_impl::cluster
RECURSIVE cluster(_)
cluster(Args) ==
  IF Args = <<>> THEN <<>>
  ELSE LET T == Head(Args)
           tl == cluster(Tail(Args))
           key == T[1]
           mapped == T[2]
       IN  IF map_contains(tl, key)
             THEN map_transform_at(tl, key, cluster_transform(mapped),
                                   identity)
             ELSE map_push_back(tl, key, <<mapped>>)

\* type_map::cluster<TKeyTransform, TMappedTransform>
map_cluster(Args, TKeyTransform, TMappedTransform) ==
  cluster([i \in DOMAIN Args |->
             transform(Args[i], TKeyTransform, TMappedTransform)])

----------------------------------------------------------------------------
\* Cluster specification.

ClusterMaps == SeqsUpTo(Pairs, MaxLen + 1)

ClusterInit ==
  /\ Idle
  /\ container = "type_map" /\ op = "cluster"
  /\ comparer = constants_comparison_lt /\ the_needle = 0
  /\ the_filter = NoFilter /\ the_depth = 0 /\ other = <<>>
  /\ list \in ClusterMaps

Cluster ==
  /\ pc = "ready" /\ op = "cluster"
  /\ result' = map_cluster(list, identity, identity)
  /\ pc' = "done"
  /\ UNCHANGED <<inputs, parsing, result2, ret, calls, well_formed>>

ClusterNext == Cluster

SpecCluster == ClusterInit /\ [][ClusterNext]_vars

----------------------------------------------------------------------------
\* The string class of a rich enum: parse and try_parse.

\* FB_STRINGIZE(x), one character per element
stringize(digit) == <<"s", "t", "a", "t", "e", digit>>

\* FATAL_RICH_ENUM(test_enum, str_class, ENUMIFY_TEST_ENUM)
test_enum ==
  <<[name |-> stringize("0"), value |-> 0],
    [name |-> stringize("1"), value |-> 4],
    [name |-> stringize("2"), value |-> 97],
    [name |-> stringize("3"), value |-> 98]>>

\* the literal "invalid"
invalid == <<"i", "n", "v", "a", "l", "i", "d">>

\* a matcher that is satisfied as soon as the whole name was read
RECURSIVE match_prefix(_, _)
match_prefix(name, s) ==
  IF name = <<>> THEN TRUE
  ELSE IF s = <<>> THEN FALSE
  ELSE IF Head(name) # Head(s) THEN FALSE
  ELSE match_prefix(Tail(name), Tail(s))

\* the range [begin, end) spells the name: character by character, and
\* both end together
RECURSIVE match_exact(_, _)
match_exact(name, s) ==
  IF name = <<>> THEN s = <<>>
  ELSE IF s = <<>> THEN FALSE
  ELSE IF Head(name) # Head(s) THEN FALSE
  ELSE match_exact(Tail(name), Tail(s))

\* str_class::try_parse(out, begin, end), over the declared enumerators
RECURSIVE try_parse_from(_, _, _)
try_parse_from(declared, o, s) ==
  IF declared = <<>> THEN [ret |-> FALSE, out |-> o]
  ELSE IF match_exact(Head(declared).name, s)
    THEN [ret |-> TRUE, out |-> Head(declared).value]
    ELSE try_parse_from(Tail(declared), o, s)

\* str_class::try_parse(out, begin, end)
try_parse(o, s) == try_parse_from(test_enum, o, s)

\* str_class::parse(begin, end)
parse(s) ==
  LET r == try_parse(invalid_enum, s)
  IN  IF r.ret THEN [thrown |-> FALSE, value |-> r.out]
               ELSE [thrown |-> TRUE, value |-> invalid_enum]

\* the iterator range [s.begin(), s.begin() + n)
range(s, n) == SubSeq(s, 1, n)

----------------------------------------------------------------------------
\* Parse specification.

\* the strings the tests parse: every name, every name followed by
\* "invalid", the empty string and "invalid"
ParseStrings ==
  {test_enum[i].name : i \in DOMAIN test_enum}
    \cup {test_enum[i].name \o invalid : i \in DOMAIN test_enum}
    \cup {<<>>, invalid}

EnumValues == {test_enum[i].value : i \in DOMAIN test_enum}

ParseInit ==
  /\ container = "str_class"
  /\ op \in {"parse", "parse_range", "try_parse", "try_parse_range"}
  /\ list = <<>> /\ other = <<>>
  /\ comparer = constants_comparison_lt /\ the_needle = 0
  /\ the_filter = NoFilter /\ the_depth = 0
  /\ the_step = 0 /\ the_offset = 0
  /\ the_string \in ParseStrings
  /\ the_end \in IF op \in {"parse", "try_parse"}
                  THEN {Len(the_string)}
                  ELSE 0..Len(the_string)
  /\ the_out \in IF op \in {"parse", "parse_range"}
                  THEN {invalid_enum}
                  ELSE {invalid_enum} \cup EnumValues
  /\ Fresh

\* what a call of try_parse leaves behind
TryParsed(r) ==
  /\ ret' = r.ret
  /\ out' = r.out
  /\ pc' = "done"
  /\ UNCHANGED <<inputs, result, result2, calls, well_formed, parsed, thrown>>

\* what a call of parse leaves behind
Parsed(r) ==
  /\ thrown' = r.thrown
  /\ parsed' = r.value
  /\ pc' = "done"
  /\ UNCHANGED <<inputs, result, result2, ret, calls, well_formed, out>>

\* str_class::try_parse(out, s)
TryParse ==
  /\ pc = "ready" /\ op = "try_parse"
  /\ TryParsed(try_parse(the_out, range(the_string, Len(the_string))))

\* str_class::try_parse(out, begin, end)
TryParseRange ==
  /\ pc = "ready" /\ op = "try_parse_range"
  /\ TryParsed(try_parse(the_out, range(the_string, the_end)))

\* str_class::parse(s)
Parse ==
  /\ pc = "ready" /\ op = "parse"
  /\ Parsed(parse(range(the_string, Len(the_string))))

\* str_class::parse(begin, end)
ParseRange ==
  /\ pc = "ready" /\ op = "parse_range"
  /\ Parsed(parse(range(the_string, the_end)))

ParseNext == TryParse \/ TryParseRange \/ Parse \/ ParseRange

SpecParse == ParseInit /\ [][ParseNext]_vars

----------------------------------------------------------------------------
\* Vocabulary of the properties.

Range(s) == {s[i] : i \in DOMAIN s}

Count(x, s) == Cardinality({i \in DOMAIN s : s[i] = x})

\* b holds the elements of a with the same multiplicities
IsPermutation(a, b) ==
  /\ Len(a) = Len(b)
  /\ \A x \in Range(a) \cup Range(b) : Count(x, a) = Count(x, b)

\* no element is less than its predecessor
Ascending(TLessComparer, s) ==
  \A i \in 1..(Len(s) - 1) : ~Less(TLessComparer, s[i + 1], s[i])

Equivalent(TLessComparer, a, b) ==
  ~Less(TLessComparer, a, b) /\ ~Less(TLessComparer, b, a)

\* the elements of s equivalent to x, in the order they have in s
EquivalentTo(TLessComparer, x, s) ==
  SelectSeq(s, LAMBDA e : Equivalent(TLessComparer, e, x))

----------------------------------------------------------------------------
\* C1: merge_sort of a list (of a map's contents, compared by key) is a
\* permutation of the input in which no element is less than its predecessor.
C1_MergeSortSortedPermutation ==
  (pc = "done" /\ op = "merge_sort") =>
    /\ IsPermutation(list, result)
    /\ Ascending(EffectiveLess, result)
    /\ well_formed

C1_Witness ==
  /\ pc = "done" /\ op = "merge_sort"
  /\ container = "type_map"
  /\ Len(list) = 3
  /\ ~Ascending(EffectiveLess, list)
  /\ result # list

\* C2: merge_sort is stable: the elements equivalent to any given element
\* appear in the result in the order they have in the input.
C2_MergeSortStable ==
  (pc = "done" /\ op = "merge_sort") =>
    \A x \in Range(list) :
      EquivalentTo(EffectiveLess, x, result)
        = EquivalentTo(EffectiveLess, x, list)

C2_Witness ==
  /\ pc = "done" /\ op = "merge_sort"
  /\ container = "type_map"
  /\ list = <<<<2, 2>>, <<1, 1>>, <<2, 1>>>>
  /\ result = <<<<1, 1>>, <<2, 2>>, <<2, 1>>>>

\* C7: merging two sorted lists gives a sorted list holding exactly the
\* elements of both, with their multiplicities, also when one is empty.
C7_MergeSortedUnion ==
  (/\ pc = "done" /\ op = "merge"
   /\ Ascending(comparer, list) /\ Ascending(comparer, other)) =>
    /\ Ascending(comparer, result)
    /\ IsPermutation(list \o other, result)
    /\ Len(result) = Len(list) + Len(other)
    /\ well_formed

C7_Witness ==
  /\ pc = "done" /\ op = "merge"
  /\ list = <<2>> /\ other = <<1, 2>>
  /\ result = <<1, 2, 2>>

----------------------------------------------------------------------------
\* Vocabulary of the binary search properties.

\* the comparer the container hands to the type_list searches
EffectiveComparer ==
  IF container = "type_map" THEN binary_search_comparer(comparer)
  ELSE comparer

Indexes == 0..(Len(list) - 1)

\* how needle n compares to the element at (0-based) position i of `list`
Cmp(n, i) == compare(EffectiveComparer, n, list[i + 1], i)

\* `list` is sorted ascending under the comparer: whatever the needle, it
\* never compares lower against an earlier element than against a later one
SortedUnderComparer ==
  \A n \in Needles : \A i, j \in Indexes : i < j => Cmp(n, i) >= Cmp(n, j)

Searched(o) == pc = "done" /\ op = o

\* the visitor was called exactly once, with the element at position i
VisitedOnly(i) == calls = <<[T |-> list[i + 1], Index |-> i]>>

\* C3: on a sorted list, exact returns true iff some element compares equal
\* to the needle; the visitor then receives such an element with its position
\* in the whole list; on the empty list it returns false.
C3_ExactFindsEqual ==
  (Searched("exact") /\ SortedUnderComparer) =>
    /\ ret <=> (\E i \in Indexes : Cmp(the_needle, i) = 0)
    /\ ret => \E i \in Indexes : Cmp(the_needle, i) = 0 /\ VisitedOnly(i)
    /\ list = <<>> => ~ret

C3_Witness ==
  /\ Searched("exact") /\ SortedUnderComparer
  /\ container = "type_map"
  /\ Len(list) = 3
  /\ ret /\ calls[1].Index = 2

\* C4: on a sorted list, lower_bound returns false exactly when the list is
\* empty or the needle is less than the first element; otherwise the visitor
\* receives the element at the index i with element i <= needle and
\* element i+1 (if any) > needle.
C4_LowerBoundGreatestNotAbove ==
  (Searched("lower_bound") /\ SortedUnderComparer) =>
    /\ ~ret <=> (list = <<>> \/ Cmp(the_needle, 0) < 0)
    /\ ret => \E i \in Indexes :
                /\ Cmp(the_needle, i) >= 0
                /\ (i + 1) \in Indexes => Cmp(the_needle, i + 1) < 0
                /\ VisitedOnly(i)

C4_Witness ==
  /\ Searched("lower_bound") /\ SortedUnderComparer
  /\ Len(list) = 3
  /\ Cmp(the_needle, 0) = 0 /\ Cmp(the_needle, 1) = 0 /\ Cmp(the_needle, 2) < 0
  /\ ret /\ calls[1].Index = 1

\* C5: on a sorted list, upper_bound returns false exactly when no element is
\* greater than the needle; otherwise the visitor receives the element at the
\* lowest index i with element i > needle.
C5_UpperBoundLeastAbove ==
  (Searched("upper_bound") /\ SortedUnderComparer) =>
    /\ ~ret <=> ~(\E i \in Indexes : Cmp(the_needle, i) < 0)
    /\ ret => \E i \in Indexes :
                /\ Cmp(the_needle, i) < 0
                /\ \A j \in Indexes : j < i => Cmp(the_needle, j) >= 0
                /\ VisitedOnly(i)

C5_Witness ==
  /\ Searched("upper_bound") /\ SortedUnderComparer
  /\ Len(list) = 3
  /\ Cmp(the_needle, 0) = 0 /\ Cmp(the_needle, 1) < 0 /\ Cmp(the_needle, 2) < 0
  /\ ret /\ calls[1].Index = 1

\* C6: in every search, on any list (sorted or not), the visitor is called at
\* most once, and it is called iff the search returns true.
C6_VisitorAtMostOnceIffTrue ==
  (pc = "done" /\ op \in {"exact", "lower_bound", "upper_bound"}) =>
    /\ Len(calls) <= 1
    /\ ret <=> Len(calls) = 1

C6_Witness ==
  /\ Searched("upper_bound")
  /\ ~SortedUnderComparer
  /\ ret /\ Len(calls) = 1
  /\ Cmp(the_needle, 0) < 0 /\ calls[1].Index > 0

----------------------------------------------------------------------------
\* Vocabulary of the filter and zip properties.

\* what TFilter is fed with for the element e of `list`
FilterKey(e) == IF container = "type_map" THEN e[1] ELSE e

Accepted(e) == FilterKey(e) \in the_filter.accepts

Min(a, b) == IF a < b THEN a ELSE b

\* C8: filter yields the subsequence of accepted elements (for a map: pairs
\* whose key is accepted) and the subsequence of the others, each in the
\* list's order; the sizes add up to the list's size.
C8_FilterPartitions ==
  (pc = "done" /\ op = "filter") =>
    /\ result = SelectSeq(list, Accepted)
    /\ result2 = SelectSeq(list, LAMBDA e : ~Accepted(e))
    /\ Len(result) + Len(result2) = Len(list)
    /\ \A x \in Range(list) :
         Count(x, result) + Count(x, result2) = Count(x, list)
    /\ Range(result) \cap Range(result2) = {}

C8_Witness ==
  /\ pc = "done" /\ op = "filter" /\ container = "type_map"
  /\ list = <<<<1, 1>>, <<2, 1>>, <<1, 2>>>>
  /\ the_filter.accepts = {1}
  /\ result = <<<<1, 1>>, <<1, 2>>>>
  /\ result2 = <<<<2, 1>>>>

\* C10: zip of L (size n) with R (size m) is L0, R0, L1, R1, ... for the
\* first min(n, m) positions, then the rest of the longer list in order;
\* it has n + m elements.
C10_ZipInterleaves ==
  (pc = "done" /\ op = "zip") =>
    LET n == Len(list)
        m == Len(other)
        k == Min(n, m)
    IN  /\ Len(result) = n + m
        /\ \A i \in 1..k :
             result[2 * i - 1] = list[i] /\ result[2 * i] = other[i]
        /\ \A i \in (k + 1)..n : result[k + i] = list[i]
        /\ \A i \in (k + 1)..m : result[k + i] = other[i]

C10_Witness ==
  /\ pc = "done" /\ op = "zip"
  /\ list = <<2, 1, 2>> /\ other = <<1, 1>>
  /\ result = <<2, 1, 1, 1, 2>>

C10_WitnessLongerRight ==
  /\ pc = "done" /\ op = "zip"
  /\ list = <<1, 1>> /\ other = <<2, 1, 2>>
  /\ result = <<1, 2, 1, 1, 2>>

----------------------------------------------------------------------------
\* Vocabulary of the flatten property.

\* s with every list nested fewer than d levels deep replaced, in place, by
\* its elements (treated alike, one level further down); deeper lists are kept
RECURSIVE FlattenedBelow(_, _)
FlattenedBelow(d, s) ==
  IF s = <<>> THEN <<>>
  ELSE (IF Head(s).is_list /\ d > 0
        THEN FlattenedBelow(d - 1, Head(s).items)
        ELSE <<Head(s)>>) \o FlattenedBelow(d, Tail(s))

\* the plain types met by a recursive left-to-right traversal
RECURSIVE Traversal(_)
Traversal(s) ==
  IF s = <<>> THEN <<>>
  ELSE (IF Head(s).is_list THEN Traversal(Head(s).items) ELSE <<Head(s).id>>)
         \o Traversal(Tail(s))

\* the number of lists around the deepest type of s
RECURSIVE Nesting(_)
Nesting(s) ==
  IF s = <<>> THEN 0
  ELSE LET h == IF Head(s).is_list THEN 1 + Nesting(Head(s).items) ELSE 0
           t == Nesting(Tail(s))
       IN  IF h > t THEN h ELSE t

\* C9: flatten<Depth> replaces in place every list nested at a level below
\* Depth by its elements, in traversal order, and keeps the deeper lists
\* intact; flatten<0> is the list itself and flatten<> holds no list.
C9_FlattenUpToDepth ==
  (pc = "done" /\ op = "flatten") =>
    /\ result = FlattenedBelow(the_depth, list)
    /\ Traversal(result) = Traversal(list)
    /\ the_depth = 0 => result = list
    /\ the_depth = size_t_max => \A i \in DOMAIN result : ~result[i].is_list

C9_Witness ==
  /\ pc = "done" /\ op = "flatten"
  /\ the_depth = 1
  /\ list = <<Nested(<<Plain(2), Nested(<<Plain(1)>>)>>)>>
  /\ result = <<Plain(2), Nested(<<Plain(1)>>)>>

C9_WitnessDefaultDepth ==
  /\ pc = "done" /\ op = "flatten"
  /\ the_depth = size_t_max
  /\ Nesting(list) = 3
  /\ Len(result) = 1

----------------------------------------------------------------------------
\* C11: unzip<Step, Offset> is exactly the elements at the indices Offset,
\* Offset + (Step + 1), Offset + 2 * (Step + 1), ... below the list's size,
\* in order; it is empty when Offset >= size.
C11_UnzipPicksEveryStep ==
  (pc = "done" /\ op = "unzip") =>
    LET picked == {i \in 0..(Len(list) - 1) :
                     /\ i >= the_offset
                     /\ (i - the_offset) % (the_step + 1) = 0}
    IN  /\ Len(result) = Cardinality(picked)
        /\ \A k \in 1..Len(result) :
             result[k] = at(the_offset + (k - 1) * (the_step + 1), list)
        /\ the_offset >= Len(list) => result = <<>>

C11_Witness ==
  /\ pc = "done" /\ op = "unzip"
  /\ list = <<1, 2, 2, 1, 1>>
  /\ the_step = 1 /\ the_offset = 2
  /\ result = <<2, 1>>

C11_WitnessOffsetBeyond ==
  /\ pc = "done" /\ op = "unzip"
  /\ Len(list) = 3 /\ the_offset = 4
  /\ result = <<>>

----------------------------------------------------------------------------
\* the sum of the sizes of the clusters of a clustered map
RECURSIVE SizeSum(_)
SizeSum(clusters) ==
  IF clusters = <<>> THEN 0
  ELSE Len(Head(clusters)[2]) + SizeSum(Tail(clusters))

\* C13: cluster<> groups the map by key: every distinct key of the source
\* map appears exactly once in the result, each key is mapped to the list of
\* exactly the mapped types of the source pairs with that key, with
\* multiplicity, and the sizes of the clusters add up to the map's size.
C13_ClusterGroupsByKey ==
  (pc = "done" /\ op = "cluster") =>
    /\ Range(keys(result)) = Range(keys(list))
    /\ \A i, j \in DOMAIN result :
         result[i][1] = result[j][1] => i = j
    /\ \A i \in DOMAIN result :
         \A m \in 1..MaxMapped :
           Count(m, result[i][2]) = Count(<<result[i][1], m>>, list)
    /\ SizeSum(result) = Len(list)

C13_Witness ==
  /\ pc = "done" /\ op = "cluster"
  /\ list = <<(<<1, 1>>), (<<2, 2>>), (<<1, 2>>), (<<1, 1>>)>>
  /\ Len(result) = 2
  /\ \E i \in DOMAIN result :
       result[i][1] = 1 /\ Len(result[i][2]) = 3 /\ Count(1, result[i][2]) = 2

----------------------------------------------------------------------------
\* the declared enumerators whose name is the range parsed
Named ==
  {i \in DOMAIN test_enum : test_enum[i].name = range(the_string, the_end)}

\* C12: parsing accepts exactly the declared enumerator names: try_parse
\* returns true and sets out to e when the input is the name of the declared
\* enumerator e, and otherwise (empty input, a name without its last
\* character, a name followed by more characters, an unrelated string)
\* returns false and leaves out unchanged; parse throws in exactly the
\* rejected cases and returns e otherwise.
C12_ParseAcceptsExactlyNames ==
  /\ (pc = "done" /\ op \in {"try_parse", "try_parse_range"}) =>
       IF Named = {}
         THEN ~ret /\ out = the_out
         ELSE ret /\ \A i \in Named : out = test_enum[i].value
  /\ (pc = "done" /\ op \in {"parse", "parse_range"}) =>
       /\ thrown <=> Named = {}
       /\ ~thrown => \A i \in Named : parsed = test_enum[i].value

C12_Witness ==
  /\ pc = "done" /\ op = "try_parse"
  /\ the_string = stringize("2") /\ the_out = invalid_enum
  /\ ret /\ out = 97

C12_WitnessTruncated ==
  /\ pc = "done" /\ op = "try_parse_range"
  /\ the_string = stringize("1") /\ the_end = 5 /\ the_out = 98
  /\ ~ret /\ out = 98

C12_WitnessExtended ==
  /\ pc = "done" /\ op = "parse"
  /\ the_string = stringize("3") \o invalid
  /\ thrown

C12_WitnessParsed ==
  /\ pc = "done" /\ op = "parse_range"
  /\ the_string = stringize("3") \o invalid /\ the_end = 6
  /\ ~thrown /\ parsed = 98

====
